---------------------------- MODULE Spec2Model ----------------------------
(***************************************************************************)
(* A model of mongoose-rest: the REST route binder (src/lib/rest.js) and   *)
(* the Backbone source generator (src/lib/backbone.js).                    *)
(*                                                                         *)
(* Strings the code inspects character by character (classify) are         *)
(* sequences of one-character strings; Str turns such a sequence into a    *)
(* TLA+ string.  Every sub-machine has its own variable and its own        *)
(* specification; a specification leaves the other variables at "off".     *)
(***************************************************************************)
EXTENDS Naturals, Integers, Sequences, FiniteSets, TLC

VARIABLES
    cls,     \* classify: the input string, the result, the position
    conv,    \* convertUnderscoreId: the instance before and after
    gen,     \* generateBackbone: registry, namespace, the text so far
    app,     \* createRoutes: registry, config, the routing table so far
    req,     \* the requests in flight, one record per request
    attr,    \* the implicit global `attr` of embeddedRoutes.create/update
    model    \* the static side of the model under test (acl, slug, ...)

vars == <<cls, conv, gen, app, req, attr, model>>

Off == [pc |-> "off"]

(***************************************************************************)
(* Strings as sequences of characters.                                     *)
(***************************************************************************)

LowerLetters == <<"a","b","c","d","e","f","g","h","i","j","k","l","m",
                  "n","o","p","q","r","s","t","u","v","w","x","y","z">>

UpperLetters == <<"A","B","C","D","E","F","G","H","I","J","K","L","M",
                  "N","O","P","Q","R","S","T","U","V","W","X","Y","Z">>

IsLower(c) == \E i \in 1..Len(LowerLetters) : LowerLetters[i] = c

\* String.prototype.toUpperCase on one character
ToUpperCase(c) ==
    IF IsLower(c)
    THEN UpperLetters[CHOOSE i \in 1..Len(LowerLetters) : LowerLetters[i] = c]
    ELSE c

RECURSIVE Str(_)
Str(s) == IF s = <<>> THEN "" ELSE Head(s) \o Str(Tail(s))

\* str.replace(<string pattern>, rep): only the FIRST occurrence is replaced
ReplaceFirst(s, c, rep) ==
    IF \E i \in 1..Len(s) : s[i] = c
    THEN LET i == CHOOSE k \in 1..Len(s) :
                      s[k] = c /\ \A j \in 1..(k-1) : s[j] # c
         IN  SubSeq(s, 1, i-1) \o rep \o SubSeq(s, i+1, Len(s))
    ELSE s

\* str.replace(/(^| )[a-z]/g, toUpperCase): every lowercase letter at the
\* start of the string or right after a space is upper-cased
UpcaseWordStarts(s) ==
    [i \in 1..Len(s) |->
        IF IsLower(s[i]) /\ (i = 1 \/ s[i-1] = " ")
        THEN ToUpperCase(s[i]) ELSE s[i]]

classify(str) ==
    ReplaceFirst(UpcaseWordStarts(ReplaceFirst(str, "_", <<" ">>)), " ", <<>>)

(***************************************************************************)
(* classify, applied to every string over ClassifyAlphabet up to MaxStrLen *)
(***************************************************************************)

MaxStrLen == 5

ClassifyAlphabet == {"a", "b", "_"}

ClassifyInputs == UNION {[1..n -> ClassifyAlphabet] : n \in 0..MaxStrLen}

InitClassify ==
    /\ cls \in {[pc |-> "call", str |-> s, out |-> <<>>] : s \in ClassifyInputs}
    /\ conv = Off /\ gen = Off /\ app = Off /\ req = Off /\ attr = Off
    /\ model = Off

Classify ==
    /\ cls.pc = "call"
    /\ cls' = [cls EXCEPT !.pc = "done", !.out = classify(cls.str)]
    /\ UNCHANGED <<conv, gen, app, req, attr, model>>

NextClassify == Classify

SpecClassify == InitClassify /\ [][NextClassify]_vars

\* one or more lowercase words joined by single underscores
LowerUnderscored(s) ==
    /\ Len(s) > 0
    /\ \A i \in 1..Len(s) : IsLower(s[i]) \/ s[i] = "_"
    /\ s[1] # "_" /\ s[Len(s)] # "_"
    /\ \A i \in 1..(Len(s)-1) : ~(s[i] = "_" /\ s[i+1] = "_")

RECURSIVE ProperCased(_, _)
\* the words of s, each with its first letter upper-cased, concatenated
ProperCased(s, wordStart) ==
    IF s = <<>> THEN <<>>
    ELSE IF Head(s) = "_" THEN ProperCased(Tail(s), TRUE)
    ELSE <<IF wordStart THEN ToUpperCase(Head(s)) ELSE Head(s)>>
             \o ProperCased(Tail(s), FALSE)

\* C8: for every lowercase, underscored input, classify returns the words
\* each with its first letter upper-cased, concatenated, with no underscore
\* and no space left in the result.
C8_ClassifyProperCase ==
    (cls.pc = "done" /\ LowerUnderscored(cls.str)) =>
        /\ cls.out = ProperCased(cls.str, TRUE)
        /\ \A i \in 1..Len(cls.out) : cls.out[i] \notin {"_", " "}

(***************************************************************************)
(* convertUnderscoreId.  A JSON value is a tagged record:                  *)
(*   [t |-> "num", v |-> n], [t |-> "null"],                               *)
(*   [t |-> "obj", kv |-> <<<<key, value>>, ...>>]  (keys in insertion     *)
(*                                                   order, all distinct)  *)
(*   [t |-> "arr", el |-> <<value, ...>>]                                  *)
(* The function works in place; the operators return the instance as the   *)
(* call leaves it.  for-in visits the keys the object had when the loop    *)
(* began; whether a key added during the loop (`id`) is visited is left    *)
(* open by the language, so it is the parameter visitAdded.                *)
(***************************************************************************)

Num(n) == [t |-> "num", v |-> n]
Null == [t |-> "null"]
Obj(kv) == [t |-> "obj", kv |-> kv]
Arr(el) == [t |-> "arr", el |-> el]

\* typeof x === 'object' (true of objects, arrays and null)
TypeofObject(x) == x.t \in {"obj", "arr", "null"}

KeysOf(kv) == {kv[i][1] : i \in 1..Len(kv)}

Get(kv, k) == kv[CHOOSE i \in 1..Len(kv) : kv[i][1] = k][2]

\* instance[k] = v: an existing key keeps its place, a new key goes last
Put(kv, k, v) ==
    IF k \in KeysOf(kv)
    THEN [i \in 1..Len(kv) |-> IF kv[i][1] = k THEN <<k, v>> ELSE kv[i]]
    ELSE Append(kv, <<k, v>>)

\* delete instance[k]
Delete(kv, k) == SelectSeq(kv, LAMBDA p : p[1] # k)

RECURSIVE convertUnderscoreId(_, _), ConvertAttr(_, _), ForIn(_, _, _)

\* the two else-branches of the loop body, for the value of one attribute
ConvertAttr(val, visitAdded) ==
    IF val.t = "arr"
    THEN Arr([i \in 1..Len(val.el) |->
                 IF TypeofObject(val.el[i])
                 THEN convertUnderscoreId(val.el[i], visitAdded)
                 ELSE val.el[i]])
    ELSE IF TypeofObject(val)
    THEN convertUnderscoreId(val, visitAdded)
    ELSE val

\* the for-in loop over an object: kv is the object now, todo the keys
\* still to visit
ForIn(kv, todo, visitAdded) ==
    IF todo = <<>> THEN kv
    ELSE LET k == Head(todo) IN
         IF k \notin KeysOf(kv) THEN ForIn(kv, Tail(todo), visitAdded)
         ELSE IF k = "_id"
         THEN ForIn(Delete(Put(kv, "id", Get(kv, "_id")), "_id"),
                    Tail(todo) \o (IF visitAdded /\ "id" \notin KeysOf(kv)
                                   THEN <<"id">> ELSE <<>>),
                    visitAdded)
         ELSE ForIn(Put(kv, k, ConvertAttr(Get(kv, k), visitAdded)),
                    Tail(todo), visitAdded)

convertUnderscoreId(instance, visitAdded) ==
    IF instance.t = "obj"
    THEN Obj(ForIn(instance.kv,
                   [i \in 1..Len(instance.kv) |-> instance.kv[i][1]],
                   visitAdded))
    ELSE IF instance.t = "arr"    \* for-in over the indices of an array
    THEN Arr([i \in 1..Len(instance.el) |->
                 ConvertAttr(instance.el[i], visitAdded)])
    ELSE instance                 \* for-in over null: no iteration

(***************************************************************************)
(* convertUnderscoreId, applied to every instance of ConvertInputs         *)
(***************************************************************************)

MaxNum == 1

JsonKeys == {"_id", "id", "a"}

Scalars == {Num(n) : n \in 1..MaxNum} \cup {Null}

\* the objects with at most n keys and values in V; the arrays with at most
\* one element in V
ObjsOver(V, n) ==
    {Obj(kv) : kv \in UNION {{s \in [1..m -> JsonKeys \X V] :
                                 \A i, j \in 1..m : i # j => s[i][1] # s[j][1]}
                             : m \in 0..n}}

ArrsOver(V) == {Arr(<<>>)} \cup {Arr(<<v>>) : v \in V}

Level1 == Scalars \cup ObjsOver(Scalars, 1) \cup ArrsOver(Scalars)

Level2 == Level1 \cup ObjsOver(Level1, 1) \cup ArrsOver(Level1)

ConvertInputs == ObjsOver(Level2, 2)

InitConvert ==
    /\ conv \in {[pc |-> "call", instance |-> x, before |-> x] :
                   x \in ConvertInputs}
    /\ cls = Off /\ gen = Off /\ app = Off /\ req = Off /\ attr = Off
    /\ model = Off

ConvertUnderscoreId ==
    /\ conv.pc = "call"
    /\ \E visitAdded \in BOOLEAN :
         conv' = [conv EXCEPT !.pc = "done",
                    !.instance = convertUnderscoreId(conv.instance, visitAdded)]
    /\ UNCHANGED <<cls, gen, app, req, attr, model>>

NextConvert == ConvertUnderscoreId

SpecConvert == InitConvert /\ [][NextConvert]_vars

RECURSIVE HasUnderscoreId(_)
\* some object at some depth has an `_id` key
HasUnderscoreId(x) ==
    IF x.t = "obj"
    THEN \/ "_id" \in KeysOf(x.kv)
         \/ \E i \in 1..Len(x.kv) : HasUnderscoreId(x.kv[i][2])
    ELSE IF x.t = "arr"
    THEN \E i \in 1..Len(x.el) : HasUnderscoreId(x.el[i])
    ELSE FALSE

RECURSIVE SameButIds(_, _)
\* `after` is `before` with, in every object at every depth, the `_id` key
\* gone, `id` holding what `_id` held, and every other key as it was
SameButIds(before, after) ==
    IF before.t = "obj"
    THEN /\ after.t = "obj"
         /\ KeysOf(after.kv) = (KeysOf(before.kv) \ {"_id"})
                \cup (IF "_id" \in KeysOf(before.kv) THEN {"id"} ELSE {})
         /\ \A k \in KeysOf(after.kv) :
              SameButIds(IF k = "id" /\ "_id" \in KeysOf(before.kv)
                         THEN Get(before.kv, "_id") ELSE Get(before.kv, k),
                         Get(after.kv, k))
    ELSE IF before.t = "arr"
    THEN /\ after.t = "arr"
         /\ Len(after.el) = Len(before.el)
         /\ \A i \in 1..Len(before.el) : SameButIds(before.el[i], after.el[i])
    ELSE after = before

\* C9: after convertUnderscoreId no object at any depth has an `_id` key,
\* every object that had an `_id` has an `id` holding the former `_id`
\* value, and every other key and value is unchanged.
C9_NoUnderscoreIdLeft ==
    conv.pc = "done" =>
        /\ ~HasUnderscoreId(conv.instance)
        /\ SameButIds(conv.before, conv.instance)

(***************************************************************************)
(* The model registry (lib/models) and lingo's singularize / pluralize.    *)
(* A resource name is a sequence of characters.  A registry is             *)
(*   [top |-> <<resource, ...>>, children |-> [resource |-> <<child,...>>]]*)
(* where a child is what getChildren returns: resource, attribute,         *)
(* singular and plural.                                                    *)
(***************************************************************************)

singularize(s) ==
    IF Len(s) > 0 /\ s[Len(s)] = "s" THEN SubSeq(s, 1, Len(s) - 1) ELSE s

pluralize(s) ==
    IF Len(s) > 0 /\ s[Len(s)] = "s" THEN s ELSE Append(s, "s")

Post     == <<"p","o","s","t">>
BlogPost == <<"b","l","o","g","_","p","o","s","t","s">>
Comment  == <<"c","o","m","m","e","n","t">>
Tag      == <<"t","a","g","s">>

TopNames == {Post, BlogPost}
EmbeddedNames == {Comment, Tag}

Embedded(r) == [resource  |-> r,
                attribute |-> Str(pluralize(r)),
                singular  |-> singularize(r),
                plural    |-> pluralize(r)]

\* the sequences without repetition over a set
Orderings(S) ==
    UNION {{q \in [1..n -> S] : \A i, j \in 1..n : i # j => q[i] # q[j]}
           : n \in 0..Cardinality(S)}

Registries ==
    {[top |-> t, children |-> c] :
        t \in Orderings(TopNames),
        c \in [TopNames -> {[i \in 1..Len(q) |-> Embedded(q[i])]
                               : q \in Orderings(EmbeddedNames)}]}

getTopLevel(reg) == reg.top

getChildren(reg, resource) == reg.children[resource]

hasChildren(reg, resource) == Len(reg.children[resource]) > 0

RECURSIVE Distinct(_)
\* a sequence without its repeated elements, first occurrences kept
Distinct(q) ==
    IF q = <<>> THEN <<>>
    ELSE LET d == Distinct(SubSeq(q, 1, Len(q) - 1)) IN
         IF \E i \in 1..Len(d) : d[i] = q[Len(q)] THEN d
         ELSE Append(d, q[Len(q)])

RECURSIVE Flatten(_)
Flatten(qq) == IF qq = <<>> THEN <<>> ELSE Head(qq) \o Flatten(Tail(qq))

\* every embedded resource of a registered top level model, once
getEmbedded(reg) ==
    Distinct(Flatten([i \in 1..Len(reg.top) |->
        [j \in 1..Len(reg.children[reg.top[i]]) |->
            reg.children[reg.top[i]][j].resource]]))

(***************************************************************************)
(* generateBackbone.  The generated text is the sequence of its class      *)
(* definitions `var <def> = <base>.extend({...})`, each with the           *)
(* identifiers its body names (`uses`).  Backbone.Model and                *)
(* Backbone.Collection come with the framework.                            *)
(***************************************************************************)

Definition(def, base, uses) == [def |-> def, base |-> base, uses |-> uses]

backboneCommon(namespace) ==
    << Definition(namespace \o "Model", "Backbone.Model", {}),
       Definition(namespace \o "Collection", "Backbone.Collection", {}) >>

backboneEmbeddedModel(namespace, resource) ==
    LET singular == namespace \o Str(classify(singularize(resource))) IN
    << Definition(singular, namespace \o "Model", {}),
       Definition(singular \o "Collection", namespace \o "Collection",
                  {singular}) >>

backboneTopLevelModel(namespace, resource, reg) ==
    LET singular == namespace \o Str(classify(singularize(resource)))
        children == getChildren(reg, resource)
    IN
    << Definition(singular, "Model",
                  IF hasChildren(reg, resource)
                  THEN {namespace \o Str(classify(children[i].singular))
                           \o "Collection" : i \in 1..Len(children)}
                  ELSE {}),
       Definition(singular \o "Collection", "Collection", {singular}) >>

Namespaces == {"", "App"}

InitGenerate ==
    /\ gen \in {[pc |-> "common", registry |-> reg, namespace |-> ns,
                 backbone |-> <<>>, i |-> 1, helpers |-> {}] :
                   reg \in Registries, ns \in Namespaces}
    /\ cls = Off /\ conv = Off /\ app = Off /\ req = Off /\ attr = Off
    /\ model = Off

\* var backbone = backboneCommon(namespace)
GenerateCommon ==
    /\ gen.pc = "common"
    /\ gen' = [gen EXCEPT !.pc = "embedded", !.i = 1,
                          !.backbone = backboneCommon(gen.namespace)]
    /\ UNCHANGED <<cls, conv, app, req, attr, model>>

\* one turn of models.getEmbedded().forEach
GenerateEmbedded ==
    /\ gen.pc = "embedded"
    /\ LET embedded == getEmbedded(gen.registry) IN
       IF gen.i <= Len(embedded)
       THEN gen' = [gen EXCEPT !.i = gen.i + 1,
                       !.backbone = gen.backbone \o
                           backboneEmbeddedModel(gen.namespace, embedded[gen.i])]
       ELSE gen' = [gen EXCEPT !.pc = "toplevel", !.i = 1]
    /\ UNCHANGED <<cls, conv, app, req, attr, model>>

\* one turn of models.getTopLevel().forEach
GenerateTopLevel ==
    /\ gen.pc = "toplevel"
    /\ LET top == getTopLevel(gen.registry) IN
       IF gen.i <= Len(top)
       THEN gen' = [gen EXCEPT !.i = gen.i + 1,
                       !.backbone = gen.backbone \o
                           backboneTopLevelModel(gen.namespace, top[gen.i],
                                                 gen.registry)]
       ELSE gen' = [gen EXCEPT !.pc = "helpers"]
    /\ UNCHANGED <<cls, conv, app, req, attr, model>>

\* app.helpers({backbone: ...}); return backbone
GenerateReturn ==
    /\ gen.pc = "helpers"
    /\ gen' = [gen EXCEPT !.pc = "done", !.helpers = {"backbone"}]
    /\ UNCHANGED <<cls, conv, app, req, attr, model>>

NextGenerate ==
    \/ GenerateCommon
    \/ GenerateEmbedded
    \/ GenerateTopLevel
    \/ GenerateReturn

SpecGenerate == InitGenerate /\ [][NextGenerate]_vars

\* the registered models: the top level ones and their embedded children
RegisteredModels(reg) ==
    {reg.top[i] : i \in 1..Len(reg.top)}
        \cup {getEmbedded(reg)[i] : i \in 1..Len(getEmbedded(reg))}

DefinedOnce(text, name) ==
    Cardinality({i \in 1..Len(text) : text[i].def = name}) = 1

DefinedBefore(text, i, name) == \E j \in 1..(i-1) : text[j].def = name

FrameworkNames == {"Backbone.Model", "Backbone.Collection"}

\* C5: the returned text defines one model class and one collection class
\* per registered model, named namespace + class name, and every identifier
\* a definition refers to (its base class, the classes its body names) is
\* defined earlier in the text.
C5_GeneratedTextIsClosed ==
    gen.pc = "done" =>
        /\ \A r \in RegisteredModels(gen.registry) :
             LET name == gen.namespace \o Str(classify(singularize(r))) IN
             /\ DefinedOnce(gen.backbone, name)
             /\ DefinedOnce(gen.backbone, name \o "Collection")
        /\ \A i \in 1..Len(gen.backbone) :
             \A name \in ({gen.backbone[i].base} \ FrameworkNames)
                            \cup gen.backbone[i].uses :
                DefinedBefore(gen.backbone, i, name)

(***************************************************************************)
(* JavaScript values the route binder tests for truth.                     *)
(***************************************************************************)

Undefined == [t |-> "undefined"]
StrV(s) == [t |-> "str", v |-> s]

Truthy(x) ==
    CASE x.t = "undefined" -> FALSE
      [] x.t = "null"      -> FALSE
      [] x.t = "str"       -> x.v # ""
      [] x.t = "num"       -> x.v # 0
      [] OTHER             -> TRUE

\* x || y
OrElse(x, y) == IF Truthy(x) THEN x ELSE y

(***************************************************************************)
(* createRoutes.  The routing table is the sequence of registered routes   *)
(* [method, path, handler]; a handler is described by the route generator  *)
(* that built it, its resource, its action and whether the acl patch       *)
(* wrapped it.                                                             *)
(***************************************************************************)

Actions == {"index", "create", "read", "update", "destroy"}

Route(method, path, handler) ==
    [method |-> method, path |-> path, handler |-> handler]

addRoutesNoDelete(table, routes, prefix, singular) ==
    table \o
    << Route("get",    prefix \o ".:format?",                    routes.index),
       Route("post",   prefix,                                   routes.create),
       Route("get",    prefix \o "/:" \o singular \o ".:format?", routes.read),
       Route("put",    prefix \o "/:" \o singular,               routes.update) >>

addRoutes(table, routes, prefix, singular) ==
    table \o
    << Route("get",    prefix \o ".:format?",                    routes.index),
       Route("post",   prefix,                                   routes.create),
       Route("get",    prefix \o "/:" \o singular \o ".:format?", routes.read),
       Route("put",    prefix \o "/:" \o singular,               routes.update),
       Route("delete", prefix \o "/:" \o singular,               routes.destroy) >>

\* routes = {index, create, read, update, destroy}; with a static acl() on
\* the model, the for-in loop replaces every one of them by its wrapper
topLevelRoutes(resource, hasAcl) ==
    [a \in Actions |->
        [kind |-> "top", parent |-> <<>>, resource |-> resource,
         action |-> a, acl |-> hasAcl]]

\* the same, the wrapper calling the PARENT model's acl()
embeddedRoutes(parent_resource, resource, attribute, parentHasAcl) ==
    [a \in Actions |->
        [kind |-> "embedded", parent |-> parent_resource,
         resource |-> resource, action |-> a, acl |-> parentHasAcl]]

\* app.param(singular, loader)
autoloadTopLevelResource(params, resource) ==
    Append(params, [name |-> Str(singularize(resource)), kind |-> "top",
                    resource |-> resource, parent |-> <<>>])

autoloadEmbeddedResource(params, parent, resource, attribute) ==
    Append(params, [name |-> Str(singularize(resource)), kind |-> "embedded",
                    resource |-> resource, parent |-> parent])

\* the `config` argument: absent, or an object with or without a path
Configs == {Undefined} \cup {Obj(<<>>)}
               \cup {Obj(<<<<"path", StrV(p)>>>>) : p \in {"", "/api/"}}

ConfigPath(config) ==
    IF "path" \in KeysOf(config.kv) THEN Get(config.kv, "path") ELSE Undefined

InitCreate ==
    /\ app \in {[pc |-> "config", registry |-> reg, acl |-> acl,
                 config |-> c, routes |-> <<>>, params |-> <<>>,
                 i |-> 1, j |-> 1, dynamicHelpers |-> {}] :
                   reg \in Registries, acl \in SUBSET TopNames, c \in Configs}
    /\ cls = Off /\ conv = Off /\ gen = Off /\ req = Off /\ attr = Off
    /\ model = Off

\* config = config || {}; the two limits default to 20 and 100
ConfigWithDefaults(config) ==
    LET c   == OrElse(config, Obj(<<>>))
        dl  == IF "default_limit" \in KeysOf(c.kv)
               THEN OrElse(Get(c.kv, "default_limit"), Num(20)) ELSE Num(20)
        ml  == IF "max_limit" \in KeysOf(c.kv)
               THEN OrElse(Get(c.kv, "max_limit"), Num(100)) ELSE Num(100)
    IN Obj(Put(Put(c.kv, "default_limit", dl), "max_limit", ml))

CreateConfig ==
    /\ app.pc = "config"
    /\ app' = [app EXCEPT !.pc = "toplevel", !.i = 1,
                          !.config = ConfigWithDefaults(app.config)]
    /\ UNCHANGED <<cls, conv, gen, req, attr, model>>

TopPrefix(config, resource) ==
    OrElse(ConfigPath(config), StrV("/")).v \o Str(pluralize(resource))

\* one turn of models.getTopLevel().forEach, up to its inner forEach
CreateTopLevel ==
    /\ app.pc = "toplevel"
    /\ LET top == getTopLevel(app.registry) IN
       IF app.i <= Len(top)
       THEN LET resource == top[app.i]
                singular == Str(singularize(resource))
                top_prefix == TopPrefix(app.config, resource)
            IN app' = [app EXCEPT
                 !.pc = "embedded", !.j = 1,
                 !.params = autoloadTopLevelResource(app.params, resource),
                 !.routes = addRoutes(app.routes,
                              topLevelRoutes(resource, resource \in app.acl),
                              top_prefix, singular)]
       ELSE app' = [app EXCEPT !.pc = "helpers"]
    /\ UNCHANGED <<cls, conv, gen, req, attr, model>>

\* one turn of models.getChildren(resource).forEach
CreateEmbedded ==
    /\ app.pc = "embedded"
    /\ LET resource == getTopLevel(app.registry)[app.i]
           children == getChildren(app.registry, resource)
       IN
       IF app.j <= Len(children)
       THEN LET embedded == children[app.j]
                prefix == TopPrefix(app.config, resource) \o "/:"
                             \o Str(singularize(resource))
            IN app' = [app EXCEPT
                 !.j = app.j + 1,
                 !.params = autoloadEmbeddedResource(app.params, resource,
                               embedded.resource, embedded.attribute),
                 !.routes = addRoutes(app.routes,
                              embeddedRoutes(resource, embedded.resource,
                                  embedded.attribute, resource \in app.acl),
                              prefix \o "/" \o Str(embedded.plural),
                              Str(embedded.singular))]
       ELSE app' = [app EXCEPT !.pc = "toplevel", !.i = app.i + 1]
    /\ UNCHANGED <<cls, conv, gen, req, attr, model>>

\* app.dynamicHelpers({resource: ...})
CreateHelpers ==
    /\ app.pc = "helpers"
    /\ app' = [app EXCEPT !.pc = "done", !.dynamicHelpers = {"resource"}]
    /\ UNCHANGED <<cls, conv, gen, req, attr, model>>

NextCreate ==
    \/ CreateConfig
    \/ CreateTopLevel
    \/ CreateEmbedded
    \/ CreateHelpers

SpecCreate == InitCreate /\ [][NextCreate]_vars

\* the five REST routes of a resource under a prefix, as the claim lists them
FiveRoutes(prefix, param, kind, parent, resource) ==
    {[method |-> "get",    path |-> prefix \o ".:format?",
      kind |-> kind, parent |-> parent, resource |-> resource,
      action |-> "index"],
     [method |-> "post",   path |-> prefix,
      kind |-> kind, parent |-> parent, resource |-> resource,
      action |-> "create"],
     [method |-> "get",    path |-> prefix \o "/:" \o param \o ".:format?",
      kind |-> kind, parent |-> parent, resource |-> resource,
      action |-> "read"],
     [method |-> "put",    path |-> prefix \o "/:" \o param,
      kind |-> kind, parent |-> parent, resource |-> resource,
      action |-> "update"],
     [method |-> "delete", path |-> prefix \o "/:" \o param,
      kind |-> kind, parent |-> parent, resource |-> resource,
      action |-> "destroy"]}

\* the path given to createRoutes, or "/" when there is none
GivenPath(config) ==
    IF config.t = "obj" /\ "path" \in KeysOf(config.kv)
          /\ Get(config.kv, "path").v # ""
    THEN Get(config.kv, "path").v ELSE "/"

ExpectedRoutes(reg, config) ==
    UNION {
        LET m == reg.top[i]
            prefix == GivenPath(config) \o Str(pluralize(m))
        IN FiveRoutes(prefix, Str(singularize(m)), "top", <<>>, m)
           \cup UNION {
               LET c == reg.children[m][j] IN
               FiveRoutes(prefix \o "/:" \o Str(singularize(m)) \o "/"
                              \o Str(pluralize(c.resource)),
                          Str(singularize(c.resource)), "embedded", m,
                          c.resource)
               : j \in 1..Len(reg.children[m])}
        : i \in 1..Len(reg.top)}

RegisteredRoute(r) ==
    [method |-> r.method, path |-> r.path, kind |-> r.handler.kind,
     parent |-> r.handler.parent, resource |-> r.handler.resource,
     action |-> r.handler.action]

Requests == {1, 2}

HexDigits == {"0","1","2","3","4","5","6","7","8","9","a","b","c","d","e","f"}

\* id_format = /^[0-9a-f]{24}$/ ; id_format.test(id)
id_format_ignorecase(id) ==
    /\ Len(id) = 24
    /\ \A i \in 1..Len(id) : id[i] \in HexDigits \cup {"A","B","C","D","E","F"}

id_format(id) ==
    /\ Len(id) = 24
    /\ \A i \in 1..Len(id) : id[i] \in HexDigits

\* sample values of the :post parameter
HexId(n)   == [i \in 1..n |-> IF i % 2 = 0 THEN "a" ELSE "4"]
UpperHexId == [i \in 1..24 |-> IF i = 7 THEN "A" ELSE "4"]
SlugId     == <<"m","y","-","p","o","s","t">>

PostIds == {HexId(24), HexId(23), HexId(25), UpperHexId, SlugId}

\* the ids of the embedded comments: at most MaxChildren of them in a post
MaxChildren == 2

ChildIdNames == <<"c1", "c2", "c3", "c4">>

ChildIds == {ChildIdNames[i] : i \in 1..MaxChildren}

Child(id) == [t |-> "child", id |-> id]

\* a post as the ORM returns it: with or without its `comments` attribute,
\* the embedded comments each with an id of its own
Doc(hasAttr, ids) ==
    [t |-> "doc", hasAttr |-> hasAttr,
     children |-> [i \in 1..Len(ids) |-> Child(ids[i])]]

Docs == {Doc(TRUE, ids) : ids \in Orderings(ChildIds)} \cup {Doc(FALSE, <<>>)}

\* what the ORM reports as an error: a string, or an Error object of its own
OrmError(message) == [t |-> "error", message |-> message, origin |-> "orm"]

OrmErrors == {StrV("timeout"), OrmError("E11000")}

\* String(x)
StringOf(x) ==
    CASE x.t = "str"   -> x.v
      [] x.t = "error" -> "Error: " \o x.message
      [] OTHER         -> "[object Object]"

\* new Error(x) as rest.js builds it: a new object, its message String(x)
NewError(x) == [t |-> "error", message |-> StringOf(x), origin |-> "rest.js"]

XhrFormats == {<<FALSE, Undefined>>, <<FALSE, StrV("html")>>,
               <<FALSE, StrV("json")>>, <<TRUE, Undefined>>}

\* request.body: its keys in for-in order
Bodies == {<<>>, <<"title">>, <<"title", "junk">>}

NoQuery == [page |-> Undefined, limit |-> Undefined, order |-> Undefined,
            desc |-> Undefined]

Queries == {NoQuery,
            [NoQuery EXCEPT !.page = Num(2), !.limit = Num(500)],
            [NoQuery EXCEPT !.order = StrV("title"), !.desc = StrV("1")]}

\* the keys of model.schema.tree that a body may name
SchemaTree == {"title"}

\* the routes of the two resources, as createRoutes builds them
RoutesOf(hasAcl) ==
    {topLevelRoutes(Post, hasAcl)[a] : a \in Actions}
        \cup {embeddedRoutes(Post, Comment, "comments", hasAcl)[a] : a \in Actions}

HasTopParam(route) ==
    route.kind = "embedded" \/ route.action \in {"read", "update", "destroy"}

HasEmbeddedParam(route) ==
    route.kind = "embedded" /\ route.action \in {"read", "update", "destroy"}

NoResources == [post |-> Undefined, comment |-> Undefined, posts |-> Undefined]

\* the requests that can arrive on a route
RequestsOn(route, xhrFormats, postIds, childIds, bodies, queries) ==
    {[pc |-> "start", route |-> route, xhr |-> xf[1], format |-> xf[2],
      params |-> [post |-> id, comment |-> cid],
      body |-> b, query |-> q, user |-> Null,
      resources |-> NoResources, log |-> <<>>] :
        xf  \in xhrFormats,
        id  \in IF HasTopParam(route) THEN postIds ELSE {<<>>},
        cid \in IF HasEmbeddedParam(route) THEN childIds ELSE {""},
        b   \in IF route.action \in {"create", "update"} THEN bodies ELSE {<<>>},
        q   \in IF route.kind = "top" /\ route.action = "index"
               THEN queries ELSE {NoQuery}}

Absent == [pc |-> "absent", log |-> <<>>]

NoAttr == [value |-> Undefined, writers |-> {}]

\* one request, every input
InitRequest ==
    /\ model \in {[acl |-> a, slug |-> sl, search |-> se, filter |-> f,
                   docs |-> Docs, errors |-> OrmErrors] :
                     a \in BOOLEAN, sl \in BOOLEAN, se \in BOOLEAN,
                     f \in BOOLEAN}
    /\ \E route \in RoutesOf(model.acl) :
         \E rq \in RequestsOn(route, XhrFormats, PostIds, ChildIds, Bodies,
                              Queries) :
            req = [r \in Requests |-> IF r = 1 THEN rq ELSE Absent]
    /\ attr = NoAttr
    /\ cls = Off /\ conv = Off /\ gen = Off /\ app = Off

\* two requests in flight at once, XHR requests with well-formed ids
InitConcurrent ==
    /\ model = [acl |-> TRUE, slug |-> TRUE, search |-> TRUE, filter |-> FALSE,
                docs |-> {Doc(TRUE, <<"c1">>)}, errors |-> {StrV("timeout")}]
    /\ req \in [Requests ->
                 UNION {RequestsOn(route, {<<TRUE, Undefined>>}, {HexId(24)},
                                   {"c1"}, {<<>>, <<"title">>}, {NoQuery})
                        : route \in RoutesOf(model.acl)}]
    /\ attr = NoAttr
    /\ cls = Off /\ conv = Off /\ gen = Off /\ app = Off

(***************************************************************************)
(* What the code does for a request, as entries of the request's log.      *)
(***************************************************************************)

OrmCall(by, op, arg) == [e |-> "orm", by |-> by, op |-> op, arg |-> arg]
OrmCallback(op, err, obj) == [e |-> "cb", op |-> op, err |-> err, obj |-> obj]
NextCall(arg) == [e |-> "next", arg |-> arg]
AclCall(action, obj) == [e |-> "acl", action |-> action, obj |-> obj]
AclAnswer(ok) == [e |-> "aclcb", ok |-> ok]
HandlerRun(route, resources) ==
    [e |-> "handle", kind |-> route.kind, action |-> route.action,
     resources |-> resources]
Response(kind, arg) == [e |-> "res", kind |-> kind, arg |-> arg]
Flash(type, msg) == [e |-> "flash", type |-> type, msg |-> msg]

\* a context: the request being served, its number, the global `attr`
Emit(c, ev) == [c EXCEPT !.rq.log = Append(@, ev)]
Goto(c, pc) == [c EXCEPT !.rq.pc = pc]

\* request.resource(name, obj) and request.resource(name)
SetResource(c, name, obj) == [c EXCEPT !.rq.resources[name] = obj]
Resource(c, name) == c.rq.resources[name]

XhrOrFormat(rq) == rq.xhr \/ Truthy(rq.format)
XhrOrJson(rq) == rq.xhr \/ rq.format = StrV("json")

\* return next(new Error(err))
Forward(c, err) == Goto(Emit(c, NextCall(NewError(err))), "done")

\* model.filter, where the model defines it: here it strips `title`
filter(body) == SelectSeq(body, LAMBDA a : a # "title")

\* the first lines of topLevelRoutes.create and .update: the attributes
\* that end up on the instance
InstanceAttrs(body) ==
    LET kept == SelectSeq(body, LAMBDA a : a \in SchemaTree)
    IN IF model.filter THEN filter(kept) ELSE kept

RECURSIVE ForInGlobalAttr(_, _)
\* for (attr in request.body) with `attr` undeclared: every turn writes the
\* global
ForInGlobalAttr(c, body) ==
    IF body = <<>> THEN c
    ELSE ForInGlobalAttr(
            [c EXCEPT !.attr = [value |-> StrV(Head(body)),
                                writers |-> @.writers \cup {c.r}]],
            Tail(body))

Min(a, b) == IF a <= b THEN a ELSE b

\* doQuery(query): sort, skip, limit, run
doQuery(c) ==
    LET q      == c.rq.query
        config == ConfigWithDefaults(Undefined)
        page   == OrElse(q.page, Num(1)).v
        limit  == Min(Get(config.kv, "max_limit").v,
                      OrElse(q.limit, Get(config.kv, "default_limit")).v)
        offset == (page - 1) * limit
        sort   == IF Truthy(q.order)
                  THEN StrV(q.order.v \o (IF Truthy(q.desc) THEN " descending"
                                          ELSE " ascending"))
                  ELSE Undefined
    IN Goto(Emit(c, OrmCall("handler", "run",
                    [t |-> "query", sort |-> sort, skip |-> offset,
                     limit |-> limit])), "wait_run")

TopIndex(c) ==
    IF model.search
    THEN Goto(Emit(c, OrmCall("handler", "search", Undefined)), "wait_search")
    ELSE doQuery(c)

TopCreate(c) ==
    LET attrs == InstanceAttrs(c.rq.body)
        c1 == [c EXCEPT !.rq.body = attrs]
    IN Goto(Emit(c1, OrmCall("handler", "save",
                     [t |-> "instance", of |-> "new post", attrs |-> attrs])),
            "wait_save")

TopRead(c) ==
    IF XhrOrJson(c.rq)
    THEN Goto(Emit(c, Response("send", Resource(c, "post"))), "done")
    ELSE Goto(Emit(c, Response("render", StrV("posts/read"))), "done")

TopUpdate(c) ==
    LET attrs == InstanceAttrs(c.rq.body)
        c1 == [c EXCEPT !.rq.body = attrs]
    IN Goto(Emit(c1, OrmCall("handler", "save",
                     [t |-> "instance", of |-> "post", attrs |-> attrs])),
            "wait_save")

TopDestroy(c) ==
    Goto(Emit(c, OrmCall("handler", "remove", Resource(c, "post"))),
         "wait_remove")

EmbeddedIndex(c) ==
    LET parent == Resource(c, "post")
        children == IF parent.hasAttr /\ Len(parent.children) > 0
                    THEN parent.children ELSE <<>>
    IN Goto(Emit(c, Response("send", Arr(children))), "done")

EmbeddedCreate(c) ==
    LET parent == Resource(c, "post")
        child  == Child("new")
        c1 == ForInGlobalAttr(c, c.rq.body)
        c2 == SetResource(c1, "post",
                  [parent EXCEPT !.hasAttr = TRUE,
                                 !.children = Append(@, child)])
    IN Goto(Emit(c2, OrmCall("handler", "save", Resource(c2, "post"))),
            "wait_save")

EmbeddedRead(c) ==
    Goto(Emit(c, Response("send", Resource(c, "comment"))), "done")

EmbeddedUpdate(c) ==
    LET c1 == ForInGlobalAttr(c, c.rq.body)
    IN Goto(Emit(c1, OrmCall("handler", "save", Resource(c1, "post"))),
            "wait_save")

EmbeddedDestroy(c) ==
    LET parent   == Resource(c, "post")
        instance == Resource(c, "comment")
        c1 == SetResource(c, "post",
                  [parent EXCEPT !.children =
                       SelectSeq(@, LAMBDA ch : ch # instance)])
        c2 == Emit(c1, OrmCall("handler", "remove", instance))
    IN Goto(Emit(c2, OrmCall("handler", "save", Resource(c2, "post"))),
            "wait_save")

\* the function topLevelRoutes / embeddedRoutes first put in routes[action]
Handle(c) ==
    LET route == c.rq.route
        c1 == Emit(c, HandlerRun(route, c.rq.resources))
    IN CASE route.kind = "top" /\ route.action = "index"   -> TopIndex(c1)
         [] route.kind = "top" /\ route.action = "create"  -> TopCreate(c1)
         [] route.kind = "top" /\ route.action = "read"    -> TopRead(c1)
         [] route.kind = "top" /\ route.action = "update"  -> TopUpdate(c1)
         [] route.kind = "top" /\ route.action = "destroy" -> TopDestroy(c1)
         [] route.kind = "embedded" /\ route.action = "index"
                -> EmbeddedIndex(c1)
         [] route.kind = "embedded" /\ route.action = "create"
                -> EmbeddedCreate(c1)
         [] route.kind = "embedded" /\ route.action = "read"
                -> EmbeddedRead(c1)
         [] route.kind = "embedded" /\ route.action = "update"
                -> EmbeddedUpdate(c1)
         [] route.kind = "embedded" /\ route.action = "destroy"
                -> EmbeddedDestroy(c1)

\* the function the route is bound to: the acl wrapper where the patch
\* replaced the handler, the handler itself otherwise
CallRoute(c) ==
    IF c.rq.route.acl
    THEN LET singular == IF c.rq.route.kind = "top" THEN "post" ELSE "comment"
             obj == OrElse(Resource(c, singular), StrV("request.body"))
         IN Goto(Emit(c, AclCall(c.rq.route.action, obj)), "wait_acl")
    ELSE Handle(c)

\* function (ok) { if (!ok) next(new Error('auth')); else handle(...) }
AclNeverDenies(c, ok) == Handle(c)

AclCallback(c, ok) ==
    IF ~Truthy(ok)
    THEN Goto(Emit(c, NextCall(NewError(StrV("auth")))), "done")
    ELSE Handle(c)

\* autoloadEmbeddedResource's app.param callback.  The ids of the embedded
\* documents of one parent are distinct, so at most one turn of the forEach
\* stores the child and calls next(); with no turn doing so the callback
\* returns having neither answered nor called next.
EmbeddedLoaderFirstChild(c) ==
    LET parent == Resource(c, "post") IN
    IF Truthy(parent) /\ parent.hasAttr
    THEN IF Len(parent.children) = 0 THEN Goto(c, "hung")
         ELSE CallRoute(Emit(SetResource(c, "comment", parent.children[1]),
                             NextCall(Undefined)))
    ELSE IF XhrOrFormat(c.rq)
    THEN Goto(Emit(c, Response("send", Arr(<<>>))), "done")
    ELSE Goto(Emit(Emit(c, Flash("error", "The comment could not be found.")),
                   Response("redirect", StrV("back"))), "done")

EmbeddedLoader(c) ==
    LET parent == Resource(c, "post")
        id == c.rq.params.comment
    IN
    IF Truthy(parent) /\ parent.hasAttr
    THEN LET matches == {i \in 1..Len(parent.children) :
                            parent.children[i].id = id}
         IN IF matches = {} THEN Goto(c, "hung")
            ELSE CallRoute(Emit(SetResource(c, "comment",
                                   parent.children[CHOOSE i \in matches : TRUE]),
                                NextCall(Undefined)))
    ELSE IF XhrOrFormat(c.rq)
    THEN Goto(Emit(c, Response("send", Arr(<<>>))), "done")
    ELSE Goto(Emit(Emit(c, Flash("error", "The comment could not be found.")),
                   Response("redirect", StrV("back"))), "done")

\* autoloadTopLevelResource's app.param callback, up to the ORM call
TopLoader(c) ==
    LET id == c.rq.params.post IN
    IF model.slug /\ ~id_format(id)
    THEN Goto(Emit(c, OrmCall("loader", "findOne", StrV(Str(id)))),
              "wait_lookup")
    ELSE Goto(Emit(c, OrmCall("loader", "findById", StrV(Str(id)))),
              "wait_lookup")

\* handleResource(err, obj); after next() the framework runs the loader of
\* the next parameter of the route, or the route
handleResource(c, err, obj) ==
    IF Truthy(err)
    THEN Forward(c, err)
    ELSE IF obj \in {Null, Undefined}
    THEN IF XhrOrFormat(c.rq)
         THEN Goto(Emit(c, Response("send", Num(404))), "done")
         ELSE Goto(Emit(Emit(c, Flash("error", "The post could not be found.")),
                        Response("redirect", StrV("back"))), "done")
    ELSE LET c1 == Emit(SetResource(c, "post", obj), NextCall(Undefined))
         IN IF HasEmbeddedParam(c.rq.route) THEN EmbeddedLoader(c1)
            ELSE CallRoute(c1)

\* model.search's callback
searchCallback(c, err) ==
    IF Truthy(err) THEN Forward(c, err) ELSE doQuery(c)

\* query.run's callback
runCallback(c, err, results) ==
    IF Truthy(err) THEN Forward(c, err)
    ELSE IF XhrOrJson(c.rq)
    THEN Goto(Emit(c, Response("send", OrElse(results, Arr(<<>>)))), "done")
    ELSE Goto(Emit(SetResource(c, "posts", results),
                   Response("render", StrV("posts/index"))), "done")

\* the save callbacks with `return` missing in front of next(new Error(err))
saveCallbackNoReturn(c, err) ==
    LET route == c.rq.route
        c1 == IF Truthy(err) THEN Emit(c, NextCall(NewError(err))) ELSE c
    IN
    IF route.kind = "top"
    THEN IF XhrOrJson(c.rq)
         THEN Goto(Emit(c1, Response("send", StrV("instance"))), "done")
         ELSE Goto(Emit(c1, Response("redirect", StrV("/posts"))), "done")
    ELSE Goto(Emit(c1, Response("send", Num(200))), "done")

\* the callbacks given to save: topLevelRoutes.create and .update,
\* embeddedRoutes.create, .update and .destroy
saveCallback(c, err) ==
    LET route == c.rq.route IN
    IF Truthy(err) THEN Forward(c, err)
    ELSE IF route.kind = "top"
    THEN IF XhrOrJson(c.rq)
         THEN Goto(Emit(c, Response("send", StrV("instance"))), "done")
         ELSE IF route.action = "create"
         THEN Goto(Emit(Emit(c, Flash("info",
                                  "The post was created successfully")),
                        Response("redirect", StrV("/posts"))), "done")
         ELSE Goto(Emit(Emit(c, Flash("info",
                                  "The post was updated successfully")),
                        Response("redirect", StrV("/posts/undefined"))), "done")
    ELSE IF route.action = "create"
    THEN Goto(Emit(c, Response("send", Child("new"))), "done")
    ELSE Goto(Emit(c, Response("send", Num(200))), "done")

\* the callback given to remove by topLevelRoutes.destroy
removeCallback(c, err) ==
    IF Truthy(err) THEN Forward(c, err)
    ELSE IF XhrOrJson(c.rq)
    THEN Goto(Emit(c, Response("send", Num(200))), "done")
    ELSE Goto(Emit(Emit(c, Flash("info", "The post was removed successfully")),
                   Response("redirect", StrV("/posts"))), "done")

(***************************************************************************)
(* The steps of a request.                                                 *)
(***************************************************************************)

Context(r) == [r |-> r, rq |-> req[r], attr |-> attr]

Commit(r, c) ==
    /\ req' = [req EXCEPT ![r] = c.rq]
    /\ attr' = c.attr
    /\ UNCHANGED <<cls, conv, gen, app, model>>

OrmAnswers == {Null} \cup model.errors

\* the framework matches the route and runs its first parameter's loader,
\* or the route when it has no parameter with a loader
Dispatch(r) ==
    /\ req[r].pc = "start"
    /\ Commit(r, IF HasTopParam(req[r].route) THEN TopLoader(Context(r))
                 ELSE CallRoute(Context(r)))

\* findOne / findById calls back
LookupAnswers(r) ==
    /\ req[r].pc = "wait_lookup"
    /\ \E err \in OrmAnswers :
         \E obj \in {Null} \cup model.docs :
            Commit(r, handleResource(
                         Emit(Context(r), OrmCallback("lookup", err, obj)),
                         err, obj))

\* acl() calls back
AclAnswers(r) ==
    /\ req[r].pc = "wait_acl"
    /\ \E ok \in {Undefined, Num(0), Num(1)} :
         Commit(r, AclCallback(Emit(Context(r), AclAnswer(ok)), ok))

\* search() calls back
SearchAnswers(r) ==
    /\ req[r].pc = "wait_search"
    /\ \E err \in OrmAnswers :
         Commit(r, searchCallback(
                      Emit(Context(r), OrmCallback("search", err, Undefined)),
                      err))

\* query.run() calls back
RunAnswers(r) ==
    /\ req[r].pc = "wait_run"
    /\ \E err \in OrmAnswers :
         \E results \in IF err = Null THEN {Null, Arr(<<>>)} ELSE {Null} :
            Commit(r, runCallback(
                         Emit(Context(r), OrmCallback("run", err, results)),
                         err, results))

\* save() calls back
SaveAnswers(r) ==
    /\ req[r].pc = "wait_save"
    /\ \E err \in OrmAnswers :
         Commit(r, saveCallback(
                      Emit(Context(r), OrmCallback("save", err, Undefined)),
                      err))

\* remove() calls back
RemoveAnswers(r) ==
    /\ req[r].pc = "wait_remove"
    /\ \E err \in OrmAnswers :
         Commit(r, removeCallback(
                      Emit(Context(r), OrmCallback("remove", err, Undefined)),
                      err))

NextRequest ==
    \E r \in Requests :
        \/ Dispatch(r)
        \/ LookupAnswers(r)
        \/ AclAnswers(r)
        \/ SearchAnswers(r)
        \/ RunAnswers(r)
        \/ SaveAnswers(r)
        \/ RemoveAnswers(r)

SpecRequest == InitRequest /\ [][NextRequest]_vars

SpecConcurrent == InitConcurrent /\ [][NextRequest]_vars

(***************************************************************************)
(* Properties of requests.                                                 *)
(***************************************************************************)

Served == {r \in Requests : req[r].pc # "absent"}

IsResponse(ev) == ev.e = "res"
IsHandlerRun(ev) == ev.e = "handle"
IsOrmWrite(ev) == ev.e = "orm" /\ ev.op \in {"save", "remove"}
IsHandlerOrm(ev) == ev.e = "orm" /\ ev.by = "handler"
IsAclAnswer(ev) == ev.e = "aclcb"

\* what JavaScript takes for true among the values acl() answers with
AclAllows(ok) == ok = Num(1)

AuthError == [t |-> "error", message |-> "auth", origin |-> "rest.js"]

\* C2: with a static acl() on the posts model, the handler of each of the
\* ten routes (five of posts, five of the embedded comments) and every ORM
\* call and response that follows the call of the route happen only after
\* acl() answered with a truthy value; when acl() answers with a falsy
\* value the request ends with next(Error('auth')), with no ORM write and
\* no response.
C2_AclGuardsEveryAction ==
    \A r \in Served :
        LET log == req[r].log IN
        model.acl =>
            /\ \A i \in 1..Len(log) :
                 (IsHandlerRun(log[i]) \/ IsHandlerOrm(log[i])
                    \/ (IsResponse(log[i])
                          /\ \E j \in 1..(i-1) : log[j].e = "acl"))
                 => \E j \in 1..(i-1) :
                        IsAclAnswer(log[j]) /\ AclAllows(log[j].ok)
            /\ \A i \in 1..Len(log) :
                 (IsAclAnswer(log[i]) /\ ~AclAllows(log[i].ok))
                 => /\ Len(log) = i + 1
                    /\ log[i+1] = NextCall(AuthError)
                    /\ req[r].pc = "done"
                    /\ \A k \in 1..Len(log) :
                         ~IsOrmWrite(log[k]) /\ ~IsResponse(log[k])

\* acl() has refused the update of an embedded comment that was loaded
C2_Witness ==
    \E r \in Served :
        /\ model.acl
        /\ req[r].route.kind = "embedded" /\ req[r].route.action = "update"
        /\ req[r].resources.comment # Undefined
        /\ \E i \in 1..Len(req[r].log) :
             IsAclAnswer(req[r].log[i]) /\ req[r].log[i].ok = Num(0)
        /\ req[r].pc = "done"

IsOrmFailure(ev) == ev.e = "cb" /\ ev.err # Null

\* C3 as claimed: when an ORM call calls back with an error, next is called
\* with the very error value the ORM reported and no response is issued.
C3_ErrorForwardedVerbatim ==
    \A r \in Served :
        LET log == req[r].log IN
        \A i \in 1..Len(log) :
            IsOrmFailure(log[i]) =>
                /\ i < Len(log)
                /\ log[i+1] = NextCall(log[i].err)
                /\ \A k \in 1..Len(log) : ~IsResponse(log[k])

\* the Error object `new Error(err)` makes of what the ORM reported
WrappedError(err) ==
    [t |-> "error", origin |-> "rest.js",
     message |-> IF err.t = "str" THEN err.v ELSE "Error: " \o err.message]

\* C3 as amended: when an ORM call calls back with an error, next is called
\* with a new Error built from it (its message the string form of what the
\* ORM reported), nothing more is done for the request, and no response is
\* issued.
C3_ErrorForwardedWrapped ==
    \A r \in Served :
        LET log == req[r].log IN
        \A i \in 1..Len(log) :
            IsOrmFailure(log[i]) =>
                /\ Len(log) = i + 1
                /\ log[i+1] = NextCall(WrappedError(log[i].err))
                /\ req[r].pc = "done"
                /\ \A k \in 1..Len(log) : ~IsResponse(log[k])

\* the save of an embedded comment has failed with an Error object of the
\* ORM, and next has been called
C3_Witness ==
    \E r \in Served :
        /\ req[r].route.kind = "embedded" /\ req[r].route.action = "create"
        /\ req[r].pc = "done"
        /\ \E i \in 1..Len(req[r].log) :
             /\ req[r].log[i].e = "cb" /\ req[r].log[i].op = "save"
             /\ req[r].log[i].err = OrmError("E11000")
             /\ i < Len(req[r].log)
             /\ req[r].log[i+1].e = "next"

\* a 24-character lowercase hexadecimal id
LowerHex24(id) ==
    /\ Len(id) = 24
    /\ \A i \in DOMAIN id :
         id[i] \in {"0","1","2","3","4","5","6","7","8","9"}
                     \cup {"a","b","c","d","e","f"}

LoaderLookups(log) ==
    {i \in 1..Len(log) : log[i].e = "orm" /\ log[i].by = "loader"}

\* C4: on a route with the :post parameter the loader makes exactly one
\* lookup, by slug iff the schema has a slug and the parameter is not a
\* 24-character lowercase hex id, else by id; it calls next() only when the
\* lookup returned an object, which it has stored as resource `post`; when
\* the lookup returns nothing it answers 404 (XHR or format) or flashes and
\* redirects back, and no handler (nor acl wrapper) runs.
C4_TopLevelLoader ==
    \A r \in Served :
        LET rq == req[r]
            log == rq.log
        IN
        (HasTopParam(rq.route) /\ rq.pc # "start") =>
            /\ LoaderLookups(log) = {1}
            /\ log[1].op = IF model.slug /\ ~LowerHex24(rq.params.post)
                           THEN "findOne" ELSE "findById"
            /\ log[1].arg = StrV(Str(rq.params.post))
            /\ Len(log) >= 2 =>
                 /\ log[2].e = "cb" /\ log[2].op = "lookup"
                 /\ Len(log) >= 3
                 /\ (log[3] = NextCall(Undefined)) <=>
                        (log[2].err = Null /\ log[2].obj \in Docs)
                 /\ (log[3] = NextCall(Undefined)) =>
                        IF \E k \in 1..Len(log) : IsHandlerRun(log[k])
                        THEN \A k \in 1..Len(log) : IsHandlerRun(log[k]) =>
                                 log[k].resources.post = log[2].obj
                        ELSE rq.resources.post = log[2].obj
                 /\ (log[2].err = Null /\ log[2].obj = Null) =>
                        /\ rq.pc = "done"
                        /\ SubSeq(log, 3, Len(log)) =
                             IF rq.xhr \/ rq.format # Undefined
                             THEN <<Response("send", Num(404))>>
                             ELSE <<Flash("error", "The post could not be found."),
                                    Response("redirect", StrV("back"))>>

\* the lookup of an upper-case 24-character id, made by slug, found nothing
\* and the plain request was redirected back
C4_Witness ==
    \E r \in Served :
        /\ model.slug
        /\ req[r].params.post = UpperHexId
        /\ ~req[r].xhr /\ req[r].format = Undefined
        /\ req[r].route.action = "update"
        /\ Len(req[r].log) = 4
        /\ req[r].log[1].op = "findOne"
        /\ req[r].log[2].obj = Null /\ req[r].log[2].err = Null
        /\ req[r].log[4] = Response("redirect", StrV("back"))

\* C6: no handler writes a variable that the handler of another request
\* reads or writes.
C6_NoSharedWrites ==
    \A r1, r2 \in Requests :
        (r1 \in attr.writers /\ r2 \in attr.writers) => r1 = r2

IsChildOf(child, parent) ==
    \E i \in 1..Len(parent.children) : parent.children[i] = child

\* C7: on a route with the :comment parameter, when the loaded post holds a
\* comment whose id is the parameter, the loader stores that comment as
\* resource `comment` and passes control on; and the embedded read, update
\* and destroy handlers only run with resource `comment` set to a comment
\* of the loaded post whose id is the parameter.
C7_EmbeddedLoader ==
    \A r \in Served :
        LET rq == req[r]
            log == rq.log
        IN
        HasEmbeddedParam(rq.route) =>
            /\ (/\ Len(log) >= 3
                /\ log[3] = NextCall(Undefined)
                /\ log[2].obj.hasAttr
                /\ IsChildOf(Child(rq.params.comment), log[2].obj))
               => /\ Len(log) >= 4
                  /\ log[4] = NextCall(Undefined)
                  /\ rq.resources.comment = Child(rq.params.comment)
            /\ \A k \in 1..Len(log) :
                 IsHandlerRun(log[k]) =>
                    /\ log[k].resources.comment # Undefined
                    /\ log[k].resources.comment.id = rq.params.comment
                    /\ IsChildOf(log[k].resources.comment,
                                 log[k].resources.post)
                    /\ log[k].resources.post = log[2].obj

\* the second of two comments was asked for, loaded, and its update saved
C7_Witness ==
    \E r \in Served :
        /\ req[r].route.kind = "embedded" /\ req[r].route.action = "update"
        /\ req[r].params.comment = "c2"
        /\ Len(req[r].log) >= 2
        /\ req[r].log[2].obj = Doc(TRUE, <<"c1", "c2">>)
        /\ req[r].resources.comment = Child("c2")
        /\ req[r].pc = "done"
        /\ \E k \in 1..Len(req[r].log) : IsHandlerRun(req[r].log[k])

=============================================================================
